---- MODULE Spec2Model ----
(***************************************************************************)
(* A model of tigertonic's TrieServeMux (trie_serve_mux.go): the trie of   *)
(* URL path segments built by Handle/HandleNamespace, the lookup done by   *)
(* Handler/find, and the response written by methodNotAllowedHandler.      *)
(*                                                                         *)
(* Go strings are modelled as sequences of one-character strings, so that  *)
(* strings.Split, strings.Join, strings.HasPrefix, strings.HasSuffix,      *)
(* strings.Trim, sort.Strings and url.Values.Encode are computed, not      *)
(* assumed.                                                                *)
(***************************************************************************)
EXTENDS Integers, Sequences, FiniteSets, TLC

VARIABLES
    trie,    \* the tree of *TrieServeMux nodes, keyed by the segments leading to each
    nregs,   \* number of Handle/HandleFunc/HandleNamespace calls made so far
    registered, \* history: the handler last passed for each <<method, pattern>>
    r,       \* the *http.Request being served, as the mux has left it so far
    res,     \* what find returned for r
    w        \* the response written by the responder, if it ran

vars == <<trie, nregs, registered, r, res, w>>

-----------------------------------------------------------------------------
(* Bounds of the model. *)

\* Handle/HandleNamespace calls in one behaviour.
MaxRegs == 3

-----------------------------------------------------------------------------
(* Go strings as sequences of characters. *)

\* The byte value of each character the model uses (needed by sort.Strings
\* and by the key order of url.Values.Encode).
ByteOf(c) ==
    CASE c = " " -> 32  [] c = "%" -> 37  [] c = "&" -> 38  [] c = "," -> 44
      [] c = "/" -> 47  [] c = "2" -> 50  [] c = "7" -> 55  [] c = "=" -> 61
      [] c = "A" -> 65  [] c = "B" -> 66  [] c = "D" -> 68  [] c = "E" -> 69
      [] c = "F" -> 70  [] c = "G" -> 71  [] c = "H" -> 72  [] c = "I" -> 73
      [] c = "N" -> 78  [] c = "O" -> 79  [] c = "P" -> 80  [] c = "S" -> 83
      [] c = "T" -> 84  [] c = "U" -> 85
      [] c = "a" -> 97  [] c = "b" -> 98  [] c = "c" -> 99  [] c = "e" -> 101
      [] c = "v" -> 118 [] c = "x" -> 120 [] c = "y" -> 121
      [] c = "{" -> 123 [] c = "}" -> 125

\* s[from:] of a Go string or slice, with from counted from 1.
Drop(s, from) == SubSeq(s, from, Len(s))

\* strings.HasPrefix
HasPrefix(s, prefix) ==
    /\ Len(s) >= Len(prefix)
    /\ SubSeq(s, 1, Len(prefix)) = prefix

\* strings.HasSuffix
HasSuffix(s, suffix) ==
    /\ Len(s) >= Len(suffix)
    /\ SubSeq(s, Len(s) - Len(suffix) + 1, Len(s)) = suffix

\* strings.Index, counted from 1; 0 when sep does not occur in s.
RECURSIVE IndexFrom(_, _, _)
IndexFrom(s, sep, i) ==
    IF i + Len(sep) - 1 > Len(s) THEN 0
    ELSE IF SubSeq(s, i, i + Len(sep) - 1) = sep THEN i
    ELSE IndexFrom(s, sep, i + 1)

Index(s, sep) == IndexFrom(s, sep, 1)

\* strings.Split for a non-empty separator: always at least one element.
RECURSIVE Split(_, _)
Split(s, sep) ==
    LET i == Index(s, sep)
    IN  IF i = 0 THEN <<s>>
        ELSE <<SubSeq(s, 1, i - 1)>> \o Split(Drop(s, i + Len(sep)), sep)

\* strings.Join
RECURSIVE Join(_, _)
Join(elems, sep) ==
    IF Len(elems) = 0 THEN <<>>
    ELSE IF Len(elems) = 1 THEN elems[1]
    ELSE elems[1] \o sep \o Join(Tail(elems), sep)

\* strings.Trim: drop every leading and trailing character that is in cutset.
RECURSIVE TrimLeft(_, _)
TrimLeft(s, cutset) ==
    IF Len(s) > 0 /\ s[1] \in cutset THEN TrimLeft(Tail(s), cutset) ELSE s

RECURSIVE TrimRight(_, _)
TrimRight(s, cutset) ==
    IF Len(s) > 0 /\ s[Len(s)] \in cutset
    THEN TrimRight(SubSeq(s, 1, Len(s) - 1), cutset)
    ELSE s

Trim(s, cutset) == TrimRight(TrimLeft(s, cutset), cutset)

\* Go's < on strings: bytewise lexicographic order.
RECURSIVE StrLess(_, _)
StrLess(a, b) ==
    IF Len(b) = 0 THEN FALSE
    ELSE IF Len(a) = 0 THEN TRUE
    ELSE IF ByteOf(a[1]) # ByteOf(b[1]) THEN ByteOf(a[1]) < ByteOf(b[1])
    ELSE StrLess(Tail(a), Tail(b))

\* sort.Strings: the slice in increasing order, duplicates kept.
RECURSIVE Insert(_, _)
Insert(sorted, s) ==
    IF Len(sorted) = 0 THEN <<s>>
    ELSE IF StrLess(s, sorted[1]) THEN <<s>> \o sorted
    ELSE <<sorted[1]>> \o Insert(Tail(sorted), s)

RECURSIVE SortStrings(_)
SortStrings(list) ==
    IF Len(list) = 0 THEN <<>>
    ELSE Insert(SortStrings(Tail(list)), list[1])

\* The keys of a Go map in some order (range over a map has no fixed order;
\* every use below sorts the result).
RECURSIVE SeqOfSet(_)
SeqOfSet(S) ==
    IF S = {} THEN <<>>
    ELSE LET e == CHOOSE x \in S : TRUE
         IN  <<e>> \o SeqOfSet(S \ {e})

\* m[k] = v on a Go map.
MapSet(m, k, v) == [x \in (DOMAIN m) \cup {k} |-> IF x = k THEN v ELSE m[x]]

\* A map with no entries (also the nil map: both read as empty).
EmptyMap == [x \in {} |-> <<>>]

\* url.QueryEscape of one character: letters and digits are kept, a space
\* becomes "+", anything else becomes %XX.
QueryEscapeChar(c) ==
    CASE c = "{" -> <<"%", "7", "B">>
      [] c = "}" -> <<"%", "7", "D">>
      [] c = "/" -> <<"%", "2", "F">>
      [] c = " " -> <<"+">>
      [] OTHER -> <<c>>

RECURSIVE QueryEscape(_)
QueryEscape(s) ==
    IF Len(s) = 0 THEN <<>>
    ELSE QueryEscapeChar(s[1]) \o QueryEscape(Tail(s))

\* One key of url.Values.Encode: key=value for each of the key's values.
RECURSIVE EncodeKey(_, _)
EncodeKey(k, vs) ==
    IF Len(vs) = 0 THEN <<>>
    ELSE <<QueryEscape(k) \o <<"=">> \o QueryEscape(vs[1])>> \o EncodeKey(k, Tail(vs))

RECURSIVE EncodeKeys(_, _)
EncodeKeys(v, keys) ==
    IF Len(keys) = 0 THEN <<>>
    ELSE EncodeKey(keys[1], v[keys[1]]) \o EncodeKeys(v, Tail(keys))

\* url.Values.Encode: "k=v" pairs joined by "&", keys in sorted order.
Encode(v) == Join(EncodeKeys(v, SortStrings(SeqOfSet(DOMAIN v))), <<"&">>)

-----------------------------------------------------------------------------
(* The trie. *)

\* HTTP method names, and the empty method that marks a namespace.
GET == <<"G", "E", "T">>
HEAD == <<"H", "E", "A", "D">>
OPTIONS == <<"O", "P", "T", "I", "O", "N", "S">>
PUT == <<"P", "U", "T">>
NamespaceMethod == <<>>

\* A *string: <<>> is nil, <<s>> points to s.
NilString == <<>>

\* NewTrieServeMux.  paths holds the keys of the children map; the child under
\* key k of the node reached by the segments id is the node Append(id, k).
NewTrieServeMux ==
    [methods |-> EmptyMap, param |-> NilString, paths |-> {}, pattern |-> <<>>]

\* The root node is reached by no segments.
Root == <<>>

\* Line 85 of add: a segment surrounded by braces is a wildcard.
IsWildcard(segment) == HasPrefix(segment, <<"{">>) /\ HasSuffix(segment, <<"}">>)

\* add with the handler of a method kept once it is registered.
Terminal_KeepFirst(node, method, handler, pattern) ==
    IF method \in DOMAIN node.methods
    THEN node
    ELSE [node EXCEPT !.methods = MapSet(@, method, handler), !.pattern = pattern]

\* add with the node's other handlers dropped when one is stored.
Terminal_Reset(node, method, handler, pattern) ==
    [node EXCEPT !.methods = MapSet(EmptyMap, method, handler), !.pattern = pattern]

\* The end of add's recursion (lines 81-82): the node with the handler stored
\* under the method and the pattern recorded.
Terminal(node, method, handler, pattern) ==
    [node EXCEPT !.methods = MapSet(@, method, handler), !.pattern = pattern]

\* add with the child of a wildcard stored under the name without braces,
\* while the wildcard key keeps them.
RECURSIVE add_ChildUnderName(_, _, _, _, _, _)
add_ChildUnderName(t, mux, method, paths, handler, pattern) ==
    IF Len(paths) = 0
    THEN [t EXCEPT ![mux] = Terminal(@, method, handler, pattern)]
    ELSE LET t1 == IF IsWildcard(paths[1])
                   THEN [t EXCEPT ![mux].param = <<paths[1]>>]
                   ELSE t
             key == Trim(paths[1], {"{", "}"})
             child == Append(mux, key)
             t2 == IF key \in t1[mux].paths
                   THEN t1
                   ELSE [t1 EXCEPT ![mux].paths = @ \cup {key}]
                            @@ (child :> NewTrieServeMux)
         IN  add_ChildUnderName(t2, child, method, Tail(paths), handler, pattern)

\* add with the wildcard key of a node kept once it is set.
RECURSIVE add_FirstWildcardWins(_, _, _, _, _, _)
add_FirstWildcardWins(t, mux, method, paths, handler, pattern) ==
    IF Len(paths) = 0
    THEN [t EXCEPT ![mux] = Terminal(@, method, handler, pattern)]
    ELSE LET t1 == IF IsWildcard(paths[1]) /\ t[mux].param = NilString
                   THEN [t EXCEPT ![mux].param = <<paths[1]>>]
                   ELSE t
             child == Append(mux, paths[1])
             t2 == IF paths[1] \in t1[mux].paths
                   THEN t1
                   ELSE [t1 EXCEPT ![mux].paths = @ \cup {paths[1]}]
                            @@ (child :> NewTrieServeMux)
         IN  add_FirstWildcardWins(t2, child, method, Tail(paths), handler, pattern)

\* TrieServeMux.add
RECURSIVE add(_, _, _, _, _, _)
add(t, mux, method, paths, handler, pattern) ==
    IF Len(paths) = 0
    THEN [t EXCEPT ![mux] = Terminal(@, method, handler, pattern)]
    ELSE LET t1 == IF IsWildcard(paths[1])
                   THEN [t EXCEPT ![mux].param = <<paths[1]>>]
                   ELSE t
             child == Append(mux, paths[1])
             t2 == IF paths[1] \in t1[mux].paths
                   THEN t1
                   ELSE [t1 EXCEPT ![mux].paths = @ \cup {paths[1]}]
                            @@ (child :> NewTrieServeMux)
         IN  add(t2, child, method, Tail(paths), handler, pattern)

\* The handlers find can return besides the registered ones.
methodNotAllowedHandler(mux) == [type |-> "methodNotAllowedHandler", name |-> "", mux |-> mux]
NotFoundHandler == [type |-> "NotFoundHandler", name |-> "", mux |-> Root]
\* The outcome of calling find on a nil *TrieServeMux.
NilDereference == [type |-> "panic", name |-> "", mux |-> Root]

\* A handler the application registers.
UserHandler(type, name) == [type |-> type, name |-> name, mux |-> Root]

\* make(url.Values), and the nil url.Values.
NilValues == EmptyMap

\* The binding with only the braced token as key.
Bind_BracedOnly(params, param, segment) == MapSet(params, param, <<segment>>)

\* The binding that leaves a key already bound (by a deeper wildcard) as
\* it is.
Bind_KeepExisting(params, param, segment) ==
    params @@ MapSet(MapSet(EmptyMap, param, <<segment>>), Trim(param, {"{", "}"}), <<segment>>)

\* The stripped path without the first of the remaining segments.
Stripped_SkipHead(paths) == <<"/">> \o Join(Tail(paths), <<"/">>)

\* url.Values.Set: the key's values become the one value.
ValuesSet(params, key, value) == MapSet(params, key, <<value>>)

\* Lines 109-113 of find: the segment bound under the wildcard token and
\* under the token with its braces trimmed.
Bind(params, param, segment) ==
    ValuesSet(ValuesSet(params, param, segment), Trim(param, {"{", "}"}), segment)

\* Line 117 of find: the path left to the namespace handler.
Stripped(paths) == <<"/">> \o Join(paths, <<"/">>)

\* find with the wildcard child tried before the literal child.
RECURSIVE find_WildcardFirst(_, _, _, _)
find_WildcardFirst(t, mux, req, paths) ==
    IF Len(paths) = 0
    THEN IF req.Method \in DOMAIN t[mux].methods
         THEN [params |-> NilValues, handler |-> t[mux].methods[req.Method],
               pattern |-> t[mux].pattern, Path |-> req.Path, line |-> 100, at |-> mux]
         ELSE [params |-> NilValues, handler |-> methodNotAllowedHandler(mux),
               pattern |-> <<>>, Path |-> req.Path, line |-> 102, at |-> mux]
    ELSE IF t[mux].param # NilString /\ t[mux].param[1] \in t[mux].paths
    THEN LET sub == find_WildcardFirst(t, Append(mux, t[mux].param[1]), req, Tail(paths))
         IN  [sub EXCEPT !.params = Bind(@, t[mux].param[1], paths[1])]
    ELSE IF paths[1] \in t[mux].paths
    THEN find_WildcardFirst(t, Append(mux, paths[1]), req, Tail(paths))
    ELSE IF NamespaceMethod \in DOMAIN t[mux].methods
    THEN [params |-> NilValues, handler |-> t[mux].methods[NamespaceMethod],
          pattern |-> t[mux].pattern,
          Path |-> Stripped(paths), line |-> 118, at |-> mux]
    ELSE [params |-> NilValues, handler |-> NotFoundHandler,
          pattern |-> <<>>, Path |-> req.Path, line |-> 120, at |-> mux]

\* TrieServeMux.find.  The result carries, besides the three returned values,
\* the request's URL.Path as find leaves it, the return statement taken
\* (line) and the node it was taken at (at).
RECURSIVE find(_, _, _, _)
find(t, mux, req, paths) ==
    IF Len(paths) = 0
    THEN IF req.Method \in DOMAIN t[mux].methods
         THEN [params |-> NilValues, handler |-> t[mux].methods[req.Method],
               pattern |-> t[mux].pattern, Path |-> req.Path, line |-> 100, at |-> mux]
         ELSE [params |-> NilValues, handler |-> methodNotAllowedHandler(mux),
               pattern |-> <<>>, Path |-> req.Path, line |-> 102, at |-> mux]
    ELSE IF paths[1] \in t[mux].paths
    THEN find(t, Append(mux, paths[1]), req, Tail(paths))
    ELSE IF t[mux].param # NilString
    THEN IF t[mux].param[1] \notin t[mux].paths
         THEN [params |-> NilValues, handler |-> NilDereference,
               pattern |-> <<>>, Path |-> req.Path, line |-> 108, at |-> mux]
         ELSE LET sub == find(t, Append(mux, t[mux].param[1]), req, Tail(paths))
              IN  [sub EXCEPT !.params = Bind(@, t[mux].param[1], paths[1])]
    ELSE IF NamespaceMethod \in DOMAIN t[mux].methods
    THEN [params |-> NilValues, handler |-> t[mux].methods[NamespaceMethod],
          pattern |-> t[mux].pattern,
          Path |-> Stripped(paths), line |-> 118, at |-> mux]
    ELSE [params |-> NilValues, handler |-> NotFoundHandler,
          pattern |-> <<>>, Path |-> req.Path, line |-> 120, at |-> mux]

-----------------------------------------------------------------------------
(* methodNotAllowedHandler.ServeHTTP *)

\* A header or body that was not written.
Unset == <<>>

\* The response before any handler has written to it.
NoResponse ==
    [status |-> 0, by |-> "", Allow |-> Unset, CORSAllowMethods |-> Unset,
     CORSAllowOrigin |-> Unset, CORSAllowHeaders |-> Unset,
     ContentType |-> Unset, json |-> EmptyMap, text |-> Unset]

\* The policy of a *CORSHandler, by the handler's name: the origins it allows
\* ("*" allows every origin) and its allowed headers, already joined.
CORSPolicy(name) ==
    IF name = "cors" THEN [origins |-> {<<"o">>}, headers |-> <<"x">>]
    ELSE [origins |-> {}, headers |-> <<>>]

\* CORSHandler.getAllowedOrigin
getAllowedOrigin(cors, requestOrigin) ==
    IF <<"*">> \in CORSPolicy(cors.name).origins THEN <<"*">>
    ELSE IF requestOrigin \in CORSPolicy(cors.name).origins THEN requestOrigin
    ELSE <<>>

\* CORSHandler.getAllowedHeaders
getAllowedHeaders(cors) == CORSPolicy(cors.name).headers

\* h.mux.methods[method].(*CORSHandler): the handler and whether it is one.
IsCORSHandler(t, mux, method) ==
    /\ method \in DOMAIN t[mux].methods
    /\ t[mux].methods[method].type = "CORSHandler"

\* The methods slice after sort.Strings (lines 128-135).
AllowedMethods(t, mux) ==
    LET m0 == <<OPTIONS>>
        m1 == IF GET \in DOMAIN t[mux].methods THEN Append(m0, HEAD) ELSE m0
    IN  SortStrings(m1 \o SeqOfSet(DOMAIN t[mux].methods))

CommaSpace == <<",", " ">>

\* fmt.Sprintf("only %s are allowed", ...)
Description(joined) ==
    <<"o", "n", "l", "y", " ">> \o joined
        \o <<" ", "a", "r", "e", " ", "a", "l", "l", "o", "w", "e", "d">>

StatusOK == 200
StatusMethodNotAllowed == 405
StatusNotFound == 404

\* The CORS response headers with the origin and the headers answered
\* whether or not the request names a method.
CORSHeaders_Unnested(t, mux, req, w1, joined) ==
    LET method == req.CORSRequestMethod
        cors == IsCORSHandler(t, mux, method)
        w2 == IF method # <<>>
              THEN [w1 EXCEPT !.CORSAllowMethods = <<joined>>]
              ELSE w1
        allowedOrigin ==
              IF cors THEN getAllowedOrigin(t[mux].methods[method], req.CORSRequestOrigin)
              ELSE <<>>
        w3 == IF req.CORSRequestOrigin # <<>>
              THEN [w2 EXCEPT !.CORSAllowOrigin =
                        IF allowedOrigin = <<>> THEN <<<<"n", "u", "l", "l">>>>
                        ELSE <<allowedOrigin>>]
              ELSE w2
    IN  IF req.CORSRequestHeaders # <<>>
        THEN [w3 EXCEPT !.CORSAllowHeaders =
                  <<IF cors THEN getAllowedHeaders(t[mux].methods[method]) ELSE <<>>>>]
        ELSE w3

\* Lines 138-159: the CORS response headers of a preflight request.
CORSHeaders(t, mux, req, w1, joined) ==
    LET method == req.CORSRequestMethod
        w2 == IF method # <<>>
              THEN [w1 EXCEPT !.CORSAllowMethods = <<joined>>]
              ELSE w1
        allowedOrigin ==
              IF IsCORSHandler(t, mux, method)
              THEN getAllowedOrigin(t[mux].methods[method], req.CORSRequestOrigin)
              ELSE <<>>
        w3 == IF method # <<>> /\ req.CORSRequestOrigin # <<>>
              THEN [w2 EXCEPT !.CORSAllowOrigin =
                        IF allowedOrigin = <<>> THEN <<<<"n", "u", "l", "l">>>>
                        ELSE <<allowedOrigin>>]
              ELSE w2
        allowedHeaders ==
              IF IsCORSHandler(t, mux, method)
              THEN getAllowedHeaders(t[mux].methods[method])
              ELSE <<>>
    IN  IF method # <<>> /\ req.CORSRequestHeaders # <<>>
        THEN [w3 EXCEPT !.CORSAllowHeaders = <<allowedHeaders>>]
        ELSE w3

\* Lines 160-172: status 200 and the list of methods, as JSON or as text.
\* req.AcceptJSON is the value of acceptJSON(r).
OptionsResponse(w1, req, methods, joined) ==
    IF req.AcceptJSON
    THEN [w1 EXCEPT !.ContentType = "application/json",
                    !.status = StatusOK,
                    !.json = ("allow" :> methods)]
    ELSE [w1 EXCEPT !.ContentType = "text/plain",
                    !.status = StatusOK,
                    !.text = <<joined>>]

\* Lines 174-197: status 405 and the description, as JSON or as text.
\* snake is the SnakeCaseHTTPEquivErrors flag.
NotAllowedResponse(w1, req, joined, snake) ==
    IF req.AcceptJSON
    THEN [w1 EXCEPT !.ContentType = "application/json",
                    !.status = StatusMethodNotAllowed,
                    !.json = ("description" :> Description(joined))
                          @@ ("error" :> IF snake THEN "method_not_allowed"
                                         ELSE "tigertonic.MethodNotAllowed")]
    ELSE [w1 EXCEPT !.ContentType = "text/plain",
                    !.status = StatusMethodNotAllowed,
                    !.text = <<Description(joined)>>]

\* The responder with the Allow header written in the 405 branch only.
MethodNotAllowedServeHTTP_AllowOn405(t, mux, req, snake) ==
    LET methods == AllowedMethods(t, mux)
        joined == Join(methods, CommaSpace)
        w0 == [NoResponse EXCEPT !.by = "methodNotAllowedHandler"]
    IN  IF req.Method = OPTIONS
        THEN OptionsResponse(CORSHeaders(t, mux, req, w0, joined), req, methods, joined)
        ELSE NotAllowedResponse([w0 EXCEPT !.Allow = <<joined>>], req, joined, snake)

\* methodNotAllowedHandler.ServeHTTP
MethodNotAllowedServeHTTP(t, mux, req, snake) ==
    LET methods == AllowedMethods(t, mux)
        joined == Join(methods, CommaSpace)
        w1 == [NoResponse EXCEPT !.by = "methodNotAllowedHandler", !.Allow = <<joined>>]
    IN  IF req.Method = OPTIONS
        THEN OptionsResponse(CORSHeaders(t, mux, req, w1, joined), req, methods, joined)
        ELSE NotAllowedResponse(w1, req, joined, snake)

\* handler.ServeHTTP(w, r) for whatever handler find returned.  A registered
\* handler writes a response this package does not determine.
HandlerServeHTTP(t, handler, req, snake) ==
    CASE handler.type = "methodNotAllowedHandler" ->
            MethodNotAllowedServeHTTP(t, handler.mux, req, snake)
      [] handler.type = "NotFoundHandler" ->
            [NoResponse EXCEPT !.by = "NotFoundHandler", !.status = StatusNotFound]
      [] OTHER -> [NoResponse EXCEPT !.by = handler.name]

-----------------------------------------------------------------------------
(* The operations of TrieServeMux. *)

\* No request is being served.
NoRequest ==
    [Method |-> <<>>, Path |-> <<>>, RawQuery |-> <<>>, AcceptJSON |-> FALSE,
     CORSRequestMethod |-> <<>>, CORSRequestOrigin |-> <<>>, CORSRequestHeaders |-> <<>>]
NoResult ==
    [params |-> NilValues, handler |-> NotFoundHandler, pattern |-> <<>>,
     Path |-> <<>>, line |-> 0, at |-> Root, before |-> NoRequest]

Init ==
    /\ trie = (Root :> NewTrieServeMux)
    /\ nregs = 0
    /\ registered = EmptyMap
    /\ r = NoRequest
    /\ res = NoResult
    /\ w = NoResponse

\* strings.Split(s, "/")[1:]
Segments(s) == Tail(Split(s, <<"/">>))

\* The trie after mux.Handle(method, pattern, handler) on the root of t.
Registered(t, method, pattern, handler) ==
    add(t, Root, method, Segments(pattern), handler, pattern)

\* Registration and serving are not concurrent (the trie is built during
\* setup, by one goroutine): a registration runs while no request is served.
Register(method, pattern, handler) ==
    /\ nregs < MaxRegs
    /\ r = NoRequest
    /\ trie' = Registered(trie, method, pattern, handler)
    /\ nregs' = nregs + 1
    /\ registered' = MapSet(registered, <<method, pattern>>, handler)
    /\ UNCHANGED <<r, res, w>>

\* TrieServeMux.Handle
Handle(method, pattern, handler) == Register(method, pattern, handler)

\* TrieServeMux.HandleFunc: Handle with the function wrapped in http.HandlerFunc.
HandleFunc(method, pattern, f) == Handle(method, pattern, UserHandler("HandlerFunc", f))

\* TrieServeMux.HandleNamespace
HandleNamespace(namespace, handler) == Register(NamespaceMethod, namespace, handler)

\* Handler with the segments the walk consumed stripped from the path
\* whatever find returns.
HandlerOf_StripMatched(t, req) ==
    LET f == find(t, Root, req, Segments(req.Path))
    IN  [found |-> f @@ [before |-> req],
         request |-> [req EXCEPT !.Path = Stripped(Drop(Segments(req.Path), Len(f.at) + 1)),
                                 !.RawQuery = req.RawQuery \o <<"&">> \o Encode(f.params)]]

\* Handler with the extracted parameters written before the query the
\* request came with.
HandlerOf_ParamsFirst(t, req) ==
    LET f == find(t, Root, req, Segments(req.Path))
    IN  [found |-> f @@ [before |-> req],
         request |-> [req EXCEPT !.Path = f.Path,
                                 !.RawQuery = Encode(f.params) \o <<"&">> \o req.RawQuery]]

\* What TrieServeMux.Handler does for the request req: the result of find
\* (with the request as it was passed in, before) and the request afterwards.
HandlerOf(t, req) ==
    LET f == find(t, Root, req, Segments(req.Path))
    IN  [found |-> f @@ [before |-> req],
         request |-> [req EXCEPT !.Path = f.Path,
                                 !.RawQuery = req.RawQuery \o <<"&">> \o Encode(f.params)]]

\* TrieServeMux.Handler, called on its own (as tests do).
Handler(req) ==
    /\ r = NoRequest
    /\ LET h == HandlerOf(trie, req)
       IN  /\ res' = h.found
           /\ r' = h.request
    /\ w' = NoResponse
    /\ UNCHANGED <<trie, nregs, registered>>

\* ServeHTTP with a lookup that creates the child it does not find at the
\* root (as indexing a map does in languages where it inserts).
ServeHTTP_InsertingChild(req, snake) ==
    /\ r = NoRequest
    /\ LET h == HandlerOf(trie, req)
           head == Segments(req.Path)[1]
       IN  /\ res' = h.found
           /\ r' = h.request
           /\ w' = HandlerServeHTTP(trie, h.found.handler, h.request, snake)
           /\ trie' = IF Len(Segments(req.Path)) > 0 /\ head \notin trie[Root].paths
                      THEN [trie EXCEPT ![Root].paths = @ \cup {head}]
                               @@ (<<head>> :> NewTrieServeMux)
                      ELSE trie
    /\ UNCHANGED <<nregs, registered>>

\* TrieServeMux.ServeHTTP
ServeHTTP(req, snake) ==
    /\ r = NoRequest
    /\ LET h == HandlerOf(trie, req)
       IN  /\ res' = h.found
           /\ r' = h.request
           /\ w' = HandlerServeHTTP(trie, h.found.handler, h.request, snake)
    /\ UNCHANGED <<trie, nregs, registered>>

\* ServeHTTP (or the caller of Handler) returns: the request is over.
RequestDone ==
    /\ r # NoRequest
    /\ r' = NoRequest
    /\ res' = NoResult
    /\ w' = NoResponse
    /\ UNCHANGED <<trie, nregs, registered>>

-----------------------------------------------------------------------------
(* The routing specification: registrations of literal, wildcard and       *)
(* namespace patterns, and requests routed through the resulting trie.     *)

\* "/a", "/a/b", "/a/{x}", "/{x}", "/{y}", "/{x}/b"
PatA == <<"/", "a">>
PatAB == <<"/", "a", "/", "b">>
PatAX == <<"/", "a", "/", "{", "x", "}">>
PatX == <<"/", "{", "x", "}">>
PatY == <<"/", "{", "y", "}">>
PatXB == <<"/", "{", "x", "}", "/", "b">>

Patterns == {PatA, PatAB, PatAX, PatX, PatY, PatXB}

\* Request paths: the patterns themselves, paths with other segment values
\* (v, the empty segment), paths one or two segments longer, the empty path.
Paths ==
    Patterns \cup
    { <<>>,
      <<"/">>,
      <<"/", "v">>,
      <<"/", "a", "/">>,
      <<"/", "a", "/", "v">>,
      <<"/", "v", "/", "b">>,
      <<"/", "a", "/", "b", "/", "c">>,
      <<"/", "a", "/", "v", "/", "c">>,
      <<"/", "v", "/", "b", "/", "c">> }

\* The methods Handle is called with, and the methods of requests.  net/http
\* never delivers a request with an empty method.
HandleMethods == {GET}
RequestMethods == {GET, PUT}

\* A request with no query and no CORS headers.
Request(method, path, acceptJSON) ==
    [NoRequest EXCEPT !.Method = method, !.Path = path, !.AcceptJSON = acceptJSON]

Requests == {Request(m, p, FALSE) : m \in RequestMethods, p \in Paths}

Next ==
    \/ \E m \in HandleMethods, p \in Patterns : Handle(m, p, UserHandler("Handler", "h1"))
    \/ \E m \in HandleMethods, p \in Patterns : HandleFunc(m, p, "f1")
    \/ \E p \in Patterns : HandleNamespace(p, UserHandler("Handler", "n1"))
    \/ \E req \in Requests : Handler(req)
    \/ \E req \in Requests, snake \in BOOLEAN : ServeHTTP(req, snake)
    \/ RequestDone

Spec == Init /\ [][Next]_vars

-----------------------------------------------------------------------------
(* What the properties below talk about. *)

\* A lookup has been done for the request being served.
LookedUp == res.line # 0

\* The request as it was passed to Handler, and its path segments.
asked == res.before
askedSegments == Segments(res.before.Path)

\* The segments of a pattern, and whether all of them are literal.
LiteralPattern(pattern) ==
    \A i \in 1..Len(Segments(pattern)) : ~IsWildcard(Segments(pattern)[i])

\* The name inside a wildcard token: the token without its two braces.
NameOf(token) == SubSeq(token, 2, Len(token) - 1)

\* The three values find returned.
Returned(f) == <<f.params, f.handler, f.pattern, f.Path>>

-----------------------------------------------------------------------------
(* C1: for every registered (method, literal pattern) pair, a lookup with  *)
(* exactly that method and that path returns the handler most recently     *)
(* registered for the pair and the pattern itself, whatever else has been  *)
(* registered.                                                             *)
C1_LiteralExactMatch ==
    (/\ LookedUp
     /\ <<asked.Method, asked.Path>> \in DOMAIN registered
     /\ LiteralPattern(asked.Path))
    => /\ res.handler = registered[<<asked.Method, asked.Path>>]
       /\ res.pattern = asked.Path

\* A literal pattern looked up after it was registered twice, the last time
\* through HandleFunc, with a wildcard and a namespace registered beside it.
C1_Witness ==
    /\ LookedUp
    /\ asked.Path = PatA
    /\ <<asked.Method, asked.Path>> \in DOMAIN registered
    /\ registered[<<asked.Method, asked.Path>>].name = "f1"
    /\ nregs > Cardinality(DOMAIN registered)
    /\ trie[Root].param # NilString
    /\ res.handler.name = "f1"

-----------------------------------------------------------------------------
\* The positions of the wildcard segments of a pattern.
WildcardPositions(pattern) ==
    {i \in 1..Len(Segments(pattern)) : IsWildcard(Segments(pattern)[i])}

\* The asked path is the pattern with the segment at position i replaced.
ReplacedAt(pattern, i) ==
    /\ Len(askedSegments) = Len(Segments(pattern))
    /\ \A j \in 1..Len(askedSegments) :
          j # i => askedSegments[j] = Segments(pattern)[j]

\* Some registered pattern has the literal segment v at position i, after
\* the same segments as the pattern.
LiteralAt(pattern, i, v) ==
    /\ ~IsWildcard(v)
    /\ \E k \in DOMAIN registered :
          /\ Len(Segments(k[2])) >= i
          /\ SubSeq(Segments(k[2]), 1, i) = Append(SubSeq(Segments(pattern), 1, i - 1), v)

(* C2: for every registered (method, pattern with a wildcard {name}) and   *)
(* every request of that method whose path is the pattern with the         *)
(* wildcard replaced by a value v that no pattern registers as a literal   *)
(* segment there (v may be the wildcard token itself, or empty), the       *)
(* lookup returns the registered handler and binds both {name} and name    *)
(* to v.                                                                   *)
C2_WildcardBindsAnyValue ==
    LookedUp =>
        \A k \in DOMAIN registered : \A i \in WildcardPositions(k[2]) :
            (/\ k[1] = asked.Method
             /\ ReplacedAt(k[2], i)
             /\ ~LiteralAt(k[2], i, askedSegments[i]))
            => LET token == Segments(k[2])[i]
                   v == askedSegments[i]
               IN  /\ res.handler = registered[k]
                   /\ token \in DOMAIN res.params
                   /\ NameOf(token) \in DOMAIN res.params
                   /\ res.params[token] = <<v>>
                   /\ res.params[NameOf(token)] = <<v>>

-----------------------------------------------------------------------------
\* The segments of the asked path from position k on.
askedFrom(k) == Drop(askedSegments, k)

(* C3: at every node that has a literal child for the head segment and a   *)
(* wildcard child, the lookup is the lookup of the remaining segments in   *)
(* the literal child: same handler (or 405 responder, or not found), same  *)
(* pattern, same path, and no parameter bound for the head segment.  The   *)
(* result returned for the request is the literal child's when the root    *)
(* is such a node; and with a literal and a wildcard pattern registered    *)
(* side by side, the request for the literal path gets the literal         *)
(* pattern's handler.                                                      *)
C3_LiteralBeforeWildcard ==
    LookedUp =>
        /\ \A mux \in DOMAIN trie : \A k \in 1..Len(askedSegments) :
              (/\ askedFrom(k)[1] \in trie[mux].paths
               /\ trie[mux].param # NilString)
              => Returned(find(trie, mux, asked, askedFrom(k)))
                   = Returned(find(trie, Append(mux, askedFrom(k)[1]), asked,
                                   Tail(askedFrom(k))))
        /\ (/\ Len(askedSegments) > 0
            /\ askedSegments[1] \in trie[Root].paths
            /\ trie[Root].param # NilString)
           => Returned(res)
                = Returned(find(trie, <<askedSegments[1]>>, asked, Tail(askedSegments)))
        /\ \A k \in DOMAIN registered :
              (/\ k = <<asked.Method, asked.Path>>
               /\ LiteralPattern(k[2])
               /\ \E j \in DOMAIN registered : WildcardPositions(j[2]) # {})
              => /\ res.handler = registered[k]
                 /\ res.params = NilValues

\* The root has the literal child a and a wildcard child; the request
\* /a/b is not found under a, although the wildcard child has a handler
\* for it.
C3_Witness ==
    /\ LookedUp
    /\ Len(askedSegments) = 2
    /\ trie[Root].param # NilString
    /\ askedSegments[1] \in trie[Root].paths
    /\ askedSegments[1] # trie[Root].param[1]
    /\ res.line = 120
    /\ res.params = NilValues
    /\ find(trie, <<trie[Root].param[1]>>, asked, Tail(askedSegments)).line = 100

-----------------------------------------------------------------------------
(* The responder specification: several methods and a namespace registered *)
(* at two literal patterns, and requests (preflight requests among them)   *)
(* answered through ServeHTTP.                                             *)

AllowPatterns == {PatA, PatAB}
AllowPaths == AllowPatterns \cup {<<>>}
AllowHandleMethods == {GET, HEAD, OPTIONS}
AllowRequestMethods == {GET, HEAD, OPTIONS, PUT}

\* A preflight request: the three CORS request headers are present.
Preflight(req) ==
    [req EXCEPT !.CORSRequestMethod = GET, !.CORSRequestOrigin = <<"o">>,
                !.CORSRequestHeaders = <<"x">>]

AllowRequests ==
    LET plain == {Request(m, p, j) : m \in AllowRequestMethods, p \in AllowPaths,
                                     j \in BOOLEAN}
    IN  plain \cup {Preflight(req) : req \in plain}

NextAllow ==
    \/ \E m \in AllowHandleMethods, p \in AllowPatterns :
          Handle(m, p, UserHandler("Handler", "h1"))
    \/ \E m \in AllowHandleMethods, p \in AllowPatterns :
          Handle(m, p, UserHandler("CORSHandler", "cors"))
    \/ \E p \in AllowPatterns : HandleNamespace(p, UserHandler("Handler", "n1"))
    \/ \E req \in AllowRequests, snake \in BOOLEAN : ServeHTTP(req, snake)
    \/ RequestDone

SpecAllow == Init /\ [][NextAllow]_vars

-----------------------------------------------------------------------------
\* ServeHTTP has run the handler for the request being served.
Served == w.by # ""

\* The methods registered (the empty namespace method among them) by the
\* patterns that end at the node the asked path spells.
RegisteredAtAsked ==
    {k[1] : k \in {j \in DOMAIN registered : Segments(j[2]) = askedSegments}}

\* The HTTP methods among them, plus HEAD if GET is there, plus OPTIONS.
ExpectedAllow ==
    (RegisteredAtAsked \ {NamespaceMethod})
        \cup (IF GET \in RegisteredAtAsked THEN {HEAD} ELSE {})
        \cup {OPTIONS}

(* C4: for every path at which a registration ends and every request       *)
(* method other than OPTIONS with no handler there, the status is 405 and  *)
(* Allow is the sorted list of exactly the HTTP methods registered there,  *)
(* plus HEAD if GET is registered, plus OPTIONS.                           *)
C4_AllowIsSortedMethodSet ==
    (/\ Served
     /\ RegisteredAtAsked # {}
     /\ asked.Method # OPTIONS
     /\ asked.Method \notin RegisteredAtAsked)
    => /\ w.status = StatusMethodNotAllowed
       /\ w.Allow = <<Join(SortStrings(SeqOfSet(ExpectedAllow)), CommaSpace)>>

-----------------------------------------------------------------------------
(* C5: the 405 responder is returned only for a node at which a handler is *)
(* registered; a request whose path ends at a node that carries no handler *)
(* is answered 404.                                                        *)
C5_NotAllowedOnlyWhereRegistered ==
    Served =>
        /\ w.by = "methodNotAllowedHandler"
              => \E k \in DOMAIN registered : Segments(k[2]) = res.at
        /\ (/\ res.at = askedSegments
            /\ \A k \in DOMAIN registered : Segments(k[2]) # res.at)
              => w.status = StatusNotFound

-----------------------------------------------------------------------------
\* The Allow header a request of the given method gets from the responder
\* of the node.
AllowFor(mux, method) ==
    MethodNotAllowedServeHTTP(trie, mux, [r EXCEPT !.Method = method], FALSE).Allow

(* C9: an OPTIONS request to a path whose node has registered methods but  *)
(* no OPTIONS handler gets status 200 and the Allow header a 405 response  *)
(* of that node carries; the responder answers 200 exactly when the        *)
(* method is OPTIONS and 405 otherwise; the allow list of the JSON body is *)
(* the list of methods in the Allow header.                                *)
C9_OptionsSameAllow ==
    /\ (/\ Served
        /\ asked.Method = OPTIONS
        /\ RegisteredAtAsked # {}
        /\ OPTIONS \notin RegisteredAtAsked)
       => /\ w.by = "methodNotAllowedHandler"
          /\ w.status = StatusOK
          /\ w.Allow = AllowFor(res.at, PUT)
          /\ w.Allow = AllowFor(res.at, GET)
    /\ w.by = "methodNotAllowedHandler"
       => /\ w.status = StatusOK <=> asked.Method = OPTIONS
          /\ w.status = StatusMethodNotAllowed <=> asked.Method # OPTIONS
          /\ w.Allow # Unset
          /\ (asked.Method = OPTIONS /\ asked.AcceptJSON)
                => /\ DOMAIN w.json = {"allow"}
                   /\ w.json["allow"] = Split(w.Allow[1], CommaSpace)

\* An OPTIONS request asking for JSON, answered 200 by the responder of a
\* node where GET and the namespace are registered.
C9_Witness ==
    /\ Served
    /\ asked.Method = OPTIONS
    /\ asked.AcceptJSON
    /\ {GET, NamespaceMethod} \subseteq RegisteredAtAsked
    /\ OPTIONS \notin RegisteredAtAsked
    /\ w.status = StatusOK
    /\ Len(w.json["allow"]) = 4

-----------------------------------------------------------------------------
\* A pattern's segments match a path's: equal, or a wildcard, one by one.
Matches(patternSegments, pathSegments) ==
    /\ Len(patternSegments) = Len(pathSegments)
    /\ \A i \in 1..Len(patternSegments) :
          \/ patternSegments[i] = pathSegments[i]
          \/ IsWildcard(patternSegments[i])

\* The asked path is the prefix followed by one or more segments.
AskedExtends(prefix) ==
    /\ Len(askedSegments) > Len(Segments(prefix))
    /\ SubSeq(askedSegments, 1, Len(Segments(prefix))) = Segments(prefix)

\* The request matches a registered (method, pattern).
AskedMatchesRegistration ==
    \E k \in DOMAIN registered :
        k[1] = asked.Method /\ Matches(Segments(k[2]), askedSegments)

(* C6: with a namespace registered at prefix P, every request whose path   *)
(* extends P by one or more segments and matches no registered (method,    *)
(* pattern) is dispatched to the namespace handler of P, also when other   *)
(* patterns registered under P match the first extra segments.             *)
C6_NamespaceCatchesUnmatched ==
    LookedUp =>
        \A k \in DOMAIN registered :
            (/\ k[1] = NamespaceMethod
             /\ AskedExtends(k[2])
             /\ ~AskedMatchesRegistration)
            => res.handler = registered[k]

-----------------------------------------------------------------------------
(* C7: whenever lookup returns a namespace handler found at the node       *)
(* reached after the first k segments, the request's path is "/" followed  *)
(* by the remaining segments joined with "/", and the pattern returned is  *)
(* the registered namespace prefix of that node; a namespace at /a turns   *)
(* the path /a/v/c into /v/c.                                              *)
C7_NamespaceStripsPrefix ==
    res.line = 118 =>
        /\ r.Path = <<"/">> \o Join(Drop(askedSegments, Len(res.at) + 1), <<"/">>)
        /\ <<NamespaceMethod, res.pattern>> \in DOMAIN registered
        /\ Segments(res.pattern) = res.at
        /\ res.handler = registered[<<NamespaceMethod, res.pattern>>]
        /\ (res.pattern = PatA /\ asked.Path = <<"/", "a", "/", "v", "/", "c">>)
              => r.Path = <<"/", "v", "/", "c">>

\* The namespace at /a answers /a/v/c, and the handler sees /v/c.
C7_Witness ==
    /\ res.line = 118
    /\ res.pattern = PatA
    /\ asked.Path = <<"/", "a", "/", "v", "/", "c">>
    /\ r.Path = <<"/", "v", "/", "c">>

-----------------------------------------------------------------------------
(* C8: whenever lookup ends not found, it returns no parameters and an     *)
(* empty pattern, also when the walk passed through wildcard segments.     *)
C8_NotFoundNoParams ==
    res.line = 120 => /\ res.params = NilValues
                      /\ res.pattern = <<>>

\* The positions at which the walk left a node through its wildcard child.
PassedWildcards == {i \in 1..Len(res.at) : res.at[i] # askedSegments[i]}

\* The two keys a wildcard token is bound under.
KeysOf(token) == {token, NameOf(token)}

\* The bindings of the wildcards the walk passed: each key has the segment
\* of the shallowest position that binds it.
ParamsOfWalk ==
    [key \in UNION {KeysOf(res.at[i]) : i \in PassedWildcards} |->
        LET first == CHOOSE i \in PassedWildcards :
                        /\ key \in KeysOf(res.at[i])
                        /\ \A j \in PassedWildcards :
                              key \in KeysOf(res.at[j]) => i <= j
        IN  <<askedSegments[first]>>]

(* C8, amended: whenever lookup ends not found, it returns the not-found   *)
(* handler and an empty pattern, and the parameters are exactly the        *)
(* bindings of the wildcard segments the walk passed through: none when it *)
(* passed through no wildcard.                                             *)
C8_NotFoundParamsOfWalk ==
    res.line = 120 =>
        /\ res.handler = NotFoundHandler
        /\ res.pattern = <<>>
        /\ res.params = ParamsOfWalk
        /\ PassedWildcards = {} => res.params = NilValues

\* A request not found one segment below a wildcard node.
C8_Witness ==
    /\ res.line = 120
    /\ PassedWildcards # {}
    /\ Len(askedSegments) > Len(res.at)
    /\ Cardinality(DOMAIN res.params) = 2

-----------------------------------------------------------------------------
\* The registrations the routing specification makes.
Registrations ==
    {<<m, p, UserHandler("Handler", "h1")>> : m \in HandleMethods, p \in Patterns}
        \cup {<<m, p, UserHandler("HandlerFunc", "f1")>> : m \in HandleMethods, p \in Patterns}
        \cup {<<NamespaceMethod, p, UserHandler("Handler", "n1")>> : p \in Patterns}

\* This step is the registration reg.
StepRegisters(reg) ==
    /\ nregs' = nregs + 1
    /\ trie' = Registered(trie, reg[1], reg[2], reg[3])
    /\ registered' = MapSet(registered, <<reg[1], reg[2]>>, reg[3])

\* Registering reg once more leaves the trie as it is.
SecondLeavesTrie(t, reg) == Registered(t, reg[1], reg[2], reg[3]) = t

\* Between the trie before and after this step, the result of every lookup
\* is the same, except that the lookups that returned the handler of
\* (reg[1], reg[2]) now return reg[3].
OnlyHandlerReplaced(reg) ==
    \A q \in Requests :
        LET b == HandlerOf(trie, q)
            a == HandlerOf(trie', q)
        IN  \/ a = b
            \/ /\ b.found.at = Segments(reg[2])
               /\ b.found.handler = registered[<<reg[1], reg[2]>>]
               /\ \/ b.found.line = 100 /\ q.Method = reg[1]
                  \/ b.found.line = 118 /\ reg[1] = NamespaceMethod
               /\ a.found = [b.found EXCEPT !.handler = reg[3]]
               /\ a.request = b.request

(* C10: registering the same (method, pattern, handler) again right after  *)
(* the first time leaves the trie as it is; registering the same (method,  *)
(* pattern) with a different handler replaces only that handler and        *)
(* changes no other lookup result.                                         *)
C10_ReRegistration ==
    [][\A reg \in Registrations :
          StepRegisters(reg) =>
              /\ SecondLeavesTrie(trie', reg)
              /\ (/\ <<reg[1], reg[2]>> \in DOMAIN registered
                  /\ registered[<<reg[1], reg[2]>>] # reg[3])
                 => OnlyHandlerReplaced(reg)]_vars

\* Every wildcard segment of the pattern is the wildcard key of its node.
WildcardKeysCurrent(t, pattern) ==
    \A i \in WildcardPositions(pattern) :
        LET mux == SubSeq(Segments(pattern), 1, i - 1)
        IN  mux \in DOMAIN t /\ t[mux].param = <<Segments(pattern)[i]>>

(* C10, amended: registering the same (method, pattern, handler) again     *)
(* right after the first time leaves the trie as it is; registering the    *)
(* same (method, pattern) with a different handler replaces only that      *)
(* handler and changes no other lookup result when every wildcard segment  *)
(* of the pattern is still the wildcard key of its node, as it is right    *)
(* after a registration of the pattern and always for a literal pattern    *)
(* (otherwise the registration also makes them the wildcard keys again).   *)
C10_ReRegistrationAmended ==
    [][\A reg \in Registrations :
          StepRegisters(reg) =>
              /\ SecondLeavesTrie(trie', reg)
              /\ WildcardKeysCurrent(trie', reg[2])
              /\ (/\ <<reg[1], reg[2]>> \in DOMAIN registered
                  /\ registered[<<reg[1], reg[2]>>] # reg[3]
                  /\ WildcardKeysCurrent(trie, reg[2]))
                 => OnlyHandlerReplaced(reg)]_vars

\* GET /{x} was registered twice, last through HandleFunc, and a lookup
\* through the wildcard returns the handler of the second registration.
C10_Witness ==
    /\ nregs = 2
    /\ DOMAIN registered = {<<GET, PatX>>}
    /\ LookedUp
    /\ asked.Path = <<"/", "v">>
    /\ res.handler = UserHandler("HandlerFunc", "f1")

-----------------------------------------------------------------------------
(* The query specification: patterns with one and two wildcards, and       *)
(* requests that already carry a query string, some of it under the names  *)
(* of the wildcards.                                                       *)

\* "/{x}/{y}", "/{x}/{x}"
PatXY == <<"/", "{", "x", "}", "/", "{", "y", "}">>
PatXX == <<"/", "{", "x", "}", "/", "{", "x", "}">>

QueryPatterns == {PatA, PatX, PatXY, PatXX}

\* "/a", "/v", "/v c" (a segment with a space), "/v/c", "/v/c/b"
QueryPaths ==
    { PatA,
      <<"/", "v">>,
      <<"/", "v", " ", "c">>,
      <<"/", "v", "/", "c">>,
      <<"/", "v", "/", "c", "/", "b">> }

\* "", "a=b", "x=c", "a=b&x=c&x=b", "%7Bx%7D=c&y"
RawQueries ==
    { <<>>,
      <<"a", "=", "b">>,
      <<"x", "=", "c">>,
      <<"a", "=", "b", "&", "x", "=", "c", "&", "x", "=", "b">>,
      <<"%", "7", "B", "x", "%", "7", "D", "=", "c", "&", "y">> }

QueryRequests ==
    {[Request(GET, p, FALSE) EXCEPT !.RawQuery = q] : p \in QueryPaths, q \in RawQueries}

NextQuery ==
    \/ \E p \in QueryPatterns : Handle(GET, p, UserHandler("Handler", "h1"))
    \/ \E p \in {PatA, PatX} : HandleNamespace(p, UserHandler("Handler", "n1"))
    \/ \E req \in QueryRequests : Handler(req)
    \/ \E req \in QueryRequests, snake \in BOOLEAN : ServeHTTP(req, snake)
    \/ RequestDone

SpecQuery == Init /\ [][NextQuery]_vars

-----------------------------------------------------------------------------
(* The query parameters a handler reads from r.URL.Query(), that is from   *)
(* url.ParseQuery(r.URL.RawQuery).                                         *)

\* url.QueryUnescape: "+" is a space, %XX the byte XX; an escape that is not
\* two hexadecimal digits is an error.
RECURSIVE QueryUnescape(_)
QueryUnescape(s) ==
    IF Len(s) = 0 THEN [ok |-> TRUE, s |-> <<>>]
    ELSE IF s[1] = "%"
    THEN LET code == SubSeq(s, 2, 3)
             rest == QueryUnescape(Drop(s, 4))
             char == CASE code = <<"7", "B">> -> <<"{">>
                       [] code = <<"7", "D">> -> <<"}">>
                       [] code = <<"2", "F">> -> <<"/">>
                       [] OTHER -> <<>>
         IN  IF char = <<>> THEN [ok |-> FALSE, s |-> <<>>]
             ELSE [ok |-> rest.ok, s |-> char \o rest.s]
    ELSE LET rest == QueryUnescape(Tail(s))
         IN  [ok |-> rest.ok, s |-> <<IF s[1] = "+" THEN " " ELSE s[1]>> \o rest.s]

\* strings.Cut(s, "="): the text before the first "=" and the text after it.
CutKey(s) == IF Index(s, <<"=">>) = 0 THEN s ELSE SubSeq(s, 1, Index(s, <<"=">>) - 1)
CutValue(s) == IF Index(s, <<"=">>) = 0 THEN <<>> ELSE Drop(s, Index(s, <<"=">>) + 1)

\* url.ParseQuery as the sequence of its <<key, value>> pairs, in the order
\* of the query string: empty settings and settings that do not unescape
\* are skipped.
RECURSIVE PairsOf(_)
PairsOf(settings) ==
    IF Len(settings) = 0 THEN <<>>
    ELSE LET key == QueryUnescape(CutKey(settings[1]))
             value == QueryUnescape(CutValue(settings[1]))
         IN  (IF settings[1] = <<>> \/ ~key.ok \/ ~value.ok
              THEN <<>>
              ELSE <<<<key.s, value.s>>>>)
             \o PairsOf(Tail(settings))

ParseQuery(query) == PairsOf(Split(query, <<"&">>))

\* The pairs of a url.Values, keys in sorted order, as Encode writes them.
RECURSIVE PairsOfKey(_, _)
PairsOfKey(k, vs) ==
    IF Len(vs) = 0 THEN <<>> ELSE <<<<k, vs[1]>>>> \o PairsOfKey(k, Tail(vs))

RECURSIVE PairsOfKeys(_, _)
PairsOfKeys(v, keys) ==
    IF Len(keys) = 0 THEN <<>>
    ELSE PairsOfKey(keys[1], v[keys[1]]) \o PairsOfKeys(v, Tail(keys))

PairsOfValues(v) == PairsOfKeys(v, SortStrings(SeqOfSet(DOMAIN v)))

\* url.Values.Get on the parsed query: the first value of the key, or "".
RECURSIVE Get(_, _)
Get(pairs, key) ==
    IF Len(pairs) = 0 THEN <<>>
    ELSE IF pairs[1][1] = key THEN pairs[1][2]
    ELSE Get(Tail(pairs), key)

\* The keys of the parsed query.
KeysIn(pairs) == {pairs[i][1] : i \in 1..Len(pairs)}

(* C11: after Handler, the pairs of the request's query are the pairs it   *)
(* had before the call, with their values and in their order, followed by  *)
(* the parameters the lookup extracted; when the lookup extracted none,    *)
(* the pairs are the ones the request had.                                 *)
C11_QueryMergedAdditively ==
    LookedUp =>
        /\ ParseQuery(r.RawQuery)
              = ParseQuery(asked.RawQuery) \o PairsOfValues(res.params)
        /\ res.params = NilValues
              => ParseQuery(r.RawQuery) = ParseQuery(asked.RawQuery)

\* A request with three pairs in its query, one of them under the name of
\* the wildcard it is matched through, with a space in the segment.
C11_Witness ==
    /\ LookedUp
    /\ Len(ParseQuery(asked.RawQuery)) = 3
    /\ asked.Path = <<"/", "v", " ", "c">>
    /\ res.line = 100
    /\ Len(ParseQuery(r.RawQuery)) = 5
    /\ Get(ParseQuery(r.RawQuery), <<"{", "x", "}">>) = <<"v", " ", "c">>

-----------------------------------------------------------------------------
(* The preflight specification: plain and CORS handlers registered for GET *)
(* and PUT at one path, and requests carrying every combination of the     *)
(* three CORS request headers.                                             *)

CORSHandleMethods == {GET, PUT}
CORSRequestMethods == {<<>>, GET, PUT}
CORSRequestOrigins == {<<>>, <<"o">>, <<"z">>}
CORSRequestHeaderValues == {<<>>, <<"x">>}

CORSRequests ==
    {[Request(m, PatA, FALSE) EXCEPT !.CORSRequestMethod = cm,
                                     !.CORSRequestOrigin = co,
                                     !.CORSRequestHeaders = ch] :
        m \in {GET, OPTIONS}, cm \in CORSRequestMethods,
        co \in CORSRequestOrigins, ch \in CORSRequestHeaderValues}

NextCORS ==
    \/ \E m \in CORSHandleMethods : Handle(m, PatA, UserHandler("Handler", "h1"))
    \/ \E m \in CORSHandleMethods : Handle(m, PatA, UserHandler("CORSHandler", "cors"))
    \/ \E req \in CORSRequests, snake \in BOOLEAN : ServeHTTP(req, snake)
    \/ RequestDone

SpecCORS == Init /\ [][NextCORS]_vars

-----------------------------------------------------------------------------
\* The CORS handler registered at the asked path for the method the
\* preflight request names, if there is one.
AskedCORSKey == <<asked.CORSRequestMethod, asked.Path>>
AskedCORSHandler ==
    /\ AskedCORSKey \in DOMAIN registered
    /\ registered[AskedCORSKey].type = "CORSHandler"

\* The value of the allow-origin header: the origin that handler allows for
\* the request's origin, or "null".
ExpectedAllowOrigin ==
    IF AskedCORSHandler
       /\ getAllowedOrigin(registered[AskedCORSKey], asked.CORSRequestOrigin) # <<>>
    THEN getAllowedOrigin(registered[AskedCORSKey], asked.CORSRequestOrigin)
    ELSE <<"n", "u", "l", "l">>

\* The value of the allow-headers header: that handler's headers, or "".
ExpectedAllowHeaders ==
    IF AskedCORSHandler THEN getAllowedHeaders(registered[AskedCORSKey]) ELSE <<>>

(* C12: in an OPTIONS response of the 405 responder, allow-methods is set  *)
(* (to the value of Allow) exactly when the request names a method;        *)
(* allow-origin is set exactly when the request names a method and an      *)
(* origin, to the origin the CORS handler registered there for the named   *)
(* method allows, or "null"; allow-headers is set exactly when the request *)
(* names a method and headers, to that handler's headers or "".  In a 405  *)
(* response none of the three is set.                                      *)
C12_CORSResponseHeaders ==
    (Served /\ w.by = "methodNotAllowedHandler") =>
        IF asked.Method = OPTIONS
        THEN /\ w.CORSAllowMethods # Unset <=> asked.CORSRequestMethod # <<>>
             /\ w.CORSAllowMethods # Unset => w.CORSAllowMethods = w.Allow
             /\ w.CORSAllowOrigin # Unset
                   <=> (asked.CORSRequestMethod # <<>> /\ asked.CORSRequestOrigin # <<>>)
             /\ w.CORSAllowOrigin # Unset => w.CORSAllowOrigin = <<ExpectedAllowOrigin>>
             /\ w.CORSAllowHeaders # Unset
                   <=> (asked.CORSRequestMethod # <<>> /\ asked.CORSRequestHeaders # <<>>)
             /\ w.CORSAllowHeaders # Unset => w.CORSAllowHeaders = <<ExpectedAllowHeaders>>
        ELSE /\ w.CORSAllowMethods = Unset
             /\ w.CORSAllowOrigin = Unset
             /\ w.CORSAllowHeaders = Unset

\* A preflight request for PUT from an origin the CORS handler of PUT does
\* not allow: the origin answered is "null", the headers are the handler's.
C12_Witness ==
    /\ Served
    /\ w.by = "methodNotAllowedHandler"
    /\ asked.Method = OPTIONS
    /\ asked.CORSRequestMethod = PUT
    /\ asked.CORSRequestOrigin = <<"z">>
    /\ AskedCORSHandler
    /\ w.CORSAllowOrigin = <<<<"n", "u", "l", "l">>>>
    /\ w.CORSAllowHeaders = <<<<"x">>>>
    /\ w.CORSAllowMethods = w.Allow

-----------------------------------------------------------------------------
(* The wildcard specification: patterns that place the wildcards {x} and   *)
(* {y} at the same node, registered with two handlers in every order.      *)

\* "/{y}/b"
PatYB == <<"/", "{", "y", "}", "/", "b">>

WildPatterns == {PatA, PatX, PatY, PatXB, PatYB}

\* "/a", "/v", "/v/b", "/{x}", "/{y}/b"
WildPaths == {PatA, <<"/", "v">>, <<"/", "v", "/", "b">>, PatX, PatYB}

WildRequests == {Request(GET, p, FALSE) : p \in WildPaths}

WildRegistrations ==
    {<<GET, p, UserHandler("Handler", "h1")>> : p \in WildPatterns}
        \cup {<<GET, p, UserHandler("HandlerFunc", "f1")>> : p \in WildPatterns}

NextWild ==
    \/ \E p \in WildPatterns : Handle(GET, p, UserHandler("Handler", "h1"))
    \/ \E p \in WildPatterns : HandleFunc(GET, p, "f1")
    \/ \E req \in WildRequests : Handler(req)
    \/ \E req \in WildRequests, snake \in BOOLEAN : ServeHTTP(req, snake)
    \/ RequestDone

SpecWild == Init /\ [][NextWild]_vars

-----------------------------------------------------------------------------
\* The node at which a pattern places its segment i.
NodeOf(pattern, i) == SubSeq(Segments(pattern), 1, i - 1)

\* The wildcard positions of the pattern that are placed at the node.
PlacedAt(pattern, mux) == {i \in WildcardPositions(pattern) : NodeOf(pattern, i) = mux}

\* After the step, the wildcard key of every node is the token the
\* registration places there, or else the key the node had.
WildcardKeysAfter(reg) ==
    \A mux \in DOMAIN trie' :
        IF PlacedAt(reg[2], mux) # {}
        THEN \A i \in PlacedAt(reg[2], mux) : trie'[mux].param = <<Segments(reg[2])[i]>>
        ELSE trie'[mux].param = (IF mux \in DOMAIN trie THEN trie[mux].param ELSE NilString)

\* After the step, a request for the registered method whose segments are
\* those of the pattern, with values that are no child keys in place of the
\* wildcards, gets the registered handler, bound under the pattern's tokens
\* and names only.
SelectedAfter(reg) ==
    \A q \in WildRequests :
        (/\ q.Method = reg[1]
         /\ Matches(Segments(reg[2]), Segments(q.Path))
         /\ \A i \in WildcardPositions(reg[2]) :
               Segments(q.Path)[i] \notin trie'[NodeOf(reg[2], i)].paths)
        => LET f == HandlerOf(trie', q).found
           IN  /\ f.handler = reg[3]
               /\ f.pattern = reg[2]
               /\ DOMAIN f.params
                    = UNION {KeysOf(Segments(reg[2])[i]) : i \in WildcardPositions(reg[2])}

\* Every wildcard step of the walk went into the child under the wildcard
\* key its node has now.
WalkFollowsKeys ==
    \A i \in PassedWildcards :
        trie[SubSeq(res.at, 1, i - 1)].param = <<res.at[i]>>

(* C13: a node has one wildcard key, the token of the last registration    *)
(* that placed a wildcard there (a registration through {x} after one      *)
(* through {y} makes it {x} again); a request segment that is no child key *)
(* goes into the child under that key and is bound under that token and    *)
(* its name only, so the handlers under the node's earlier wildcard are    *)
(* not reached through wildcard matching.                                  *)
C13_LastWildcardWins ==
    /\ [](LookedUp => /\ WalkFollowsKeys
                      /\ res.params = ParamsOfWalk)
    /\ [][\A reg \in WildRegistrations :
              StepRegisters(reg) => WildcardKeysAfter(reg) /\ SelectedAfter(reg)]_vars

\* /{x} was registered, then /{y} with another handler: the request /v
\* gets the handler of /{y}, bound under {y} and y.
C13_Witness ==
    /\ nregs = 2
    /\ DOMAIN registered = {<<GET, PatX>>, <<GET, PatY>>}
    /\ registered[<<GET, PatX>>] # registered[<<GET, PatY>>]
    /\ trie[Root].param = <<<<"{", "y", "}">>>>
    /\ LookedUp
    /\ asked.Path = <<"/", "v">>
    /\ res.handler = registered[<<GET, PatY>>]
    /\ DOMAIN res.params = {<<"{", "y", "}">>, <<"y">>}

-----------------------------------------------------------------------------
\* The request differs from the one passed in by its path and query only.
OnlyPathAndQueryChanged ==
    [r EXCEPT !.Path = asked.Path, !.RawQuery = asked.RawQuery] = asked

-----------------------------------------------------------------------------
\* The wildcard tokens the walk passed are different from one another.
PassedDistinct ==
    \A i, j \in PassedWildcards : i # j => res.at[i] # res.at[j]

(* C15: for a request that reaches a handler through two or more wildcard  *)
(* segments, the parameters have, for each of these wildcards, the key of  *)
(* its token and the key of its name, and no other key; when the tokens    *)
(* are different from one another that is two keys for each wildcard, both *)
(* bound to the request segment at the wildcard's position; when one token *)
(* is passed at two depths, its two keys are bound to the segment at the   *)
(* shallower one.                                                          *)
C15_ParamsOfSeveralWildcards ==
    (/\ LookedUp
     /\ res.line = 100
     /\ Cardinality(PassedWildcards) >= 2)
    => /\ DOMAIN res.params = UNION {KeysOf(res.at[i]) : i \in PassedWildcards}
       /\ PassedDistinct
             => /\ Cardinality(DOMAIN res.params) = 2 * Cardinality(PassedWildcards)
                /\ \A i \in PassedWildcards :
                      /\ res.params[res.at[i]] = <<askedSegments[i]>>
                      /\ res.params[NameOf(res.at[i])] = <<askedSegments[i]>>
       /\ \A i, j \in PassedWildcards :
             (i < j /\ res.at[i] = res.at[j])
             => /\ res.params[res.at[i]] = <<askedSegments[i]>>
                /\ res.params[NameOf(res.at[i])] = <<askedSegments[i]>>

\* The request /v/c reaches the handler of /{x}/{x}: x and {x} are bound to
\* v, the segment of the first wildcard.
C15_Witness ==
    /\ LookedUp
    /\ res.line = 100
    /\ res.pattern = PatXX
    /\ asked.Path = <<"/", "v", "/", "c">>
    /\ PassedWildcards = {1, 2}
    /\ res.params = (<<"x">> :> <<<<"v">>>>) @@ (<<"{", "x", "}">> :> <<<<"v">>>>)

-----------------------------------------------------------------------------
\* The entries of the Allow header the responder wrote.
Listed == Split(w.Allow[1], CommaSpace)
ListedMethods == {Listed[i] : i \in 1..Len(Listed)} \ {NamespaceMethod}

\* The status ServeHTTP answers to the asked request sent with the method.
StatusFor(method) ==
    LET h == HandlerOf(trie, [asked EXCEPT !.Method = method])
    IN  HandlerServeHTTP(trie, h.found.handler, h.request, FALSE).status

(* C16: whenever the 405 responder answers, a request to the same path     *)
(* with any method its Allow header lists is not answered 405; so the      *)
(* method of a request answered 405 is not in the Allow header of that     *)
(* answer, and a HEAD request where GET is registered is not answered 405. *)
C16_ListedMethodsAccepted ==
    (Served /\ w.by = "methodNotAllowedHandler") =>
        /\ \A m \in ListedMethods : StatusFor(m) # StatusMethodNotAllowed
        /\ w.status = StatusMethodNotAllowed => asked.Method \notin ListedMethods
        /\ (asked.Method = HEAD /\ GET \in RegisteredAtAsked)
              => w.status # StatusMethodNotAllowed

-----------------------------------------------------------------------------
\* No entry of the list occurs twice, and none is the empty method.
IsMethodSet(list) ==
    /\ \A i, j \in 1..Len(list) : i # j => list[i] # list[j]
    /\ \A i \in 1..Len(list) : list[i] # NamespaceMethod

(* C17: whatever is registered at the node (GET with HEAD, OPTIONS, a      *)
(* namespace), no method occurs twice in the Allow header of the responder *)
(* or in the allow array of its JSON body, and the empty method of a       *)
(* namespace is not an entry of either.                                    *)
C17_AllowListIsSet ==
    (Served /\ w.by = "methodNotAllowedHandler") =>
        /\ IsMethodSet(Listed)
        /\ "allow" \in DOMAIN w.json => IsMethodSet(w.json["allow"])

-----------------------------------------------------------------------------
(* C18: after Handler on a request that reaches a handler through a        *)
(* wildcard {name}, the first value of name and of {name} among the        *)
(* request's query parameters is the segment bound to the wildcard, also   *)
(* when the query the request came with has a parameter of that name.      *)
C18_WildcardValueFirst ==
    (/\ LookedUp
     /\ res.line = 100
     /\ PassedWildcards # {})
    => \A key \in DOMAIN res.params :
          Get(ParseQuery(r.RawQuery), key) = res.params[key][1]

-----------------------------------------------------------------------------
(* C19: after a lookup that returns a method handler, the 405 responder or *)
(* the not-found handler, the request's path is the one it came with; a    *)
(* path that differs was written by the return of a namespace handler, and *)
(* it is the path the request came with less the segments of the walk      *)
(* (written once, not a path stripped again).                              *)
C19_PathKeptUnlessNamespace ==
    LookedUp =>
        /\ res.line \in {100, 102, 120} => r.Path = asked.Path
        /\ r.Path # asked.Path
              => /\ res.line = 118
                 /\ <<NamespaceMethod, res.pattern>> \in DOMAIN registered
                 /\ res.handler = registered[<<NamespaceMethod, res.pattern>>]
                 /\ r.Path = <<"/">> \o Join(Drop(askedSegments, Len(res.at) + 1), <<"/">>)

\* A request reaches a method handler two segments deep, through a node
\* that has a namespace handler: its path is the one it came with.
C19_Witness ==
    /\ LookedUp
    /\ res.line = 100
    /\ Len(res.at) = 2
    /\ NamespaceMethod \in DOMAIN trie[SubSeq(res.at, 1, 1)].methods
    /\ r.Path = asked.Path
    /\ r.Path = <<"/", "v", "/", "c">>

-----------------------------------------------------------------------------
\* The handlers find returns that are not nil: the registered ones, the 405
\* responder and the not-found handler.
NonNilHandler(handler) ==
    handler.type \in {"Handler", "HandlerFunc", "CORSHandler",
                      "methodNotAllowedHandler", "NotFoundHandler"}

(* C20: at every node of the trie a wildcard key that is set is the key of *)
(* one of the node's children, and every child key leads to a node; so no  *)
(* lookup, of the request served or of any other, dereferences a missing   *)
(* child, and each returns a handler that is not nil.                      *)
C20_WildcardChildExists ==
    /\ \A mux \in DOMAIN trie :
          /\ trie[mux].param # NilString
                => /\ trie[mux].param[1] \in trie[mux].paths
                   /\ IsWildcard(trie[mux].param[1])
          /\ \A key \in trie[mux].paths : Append(mux, key) \in DOMAIN trie
    /\ LookedUp => res.line # 108 /\ NonNilHandler(res.handler)
    /\ \A q \in WildRequests :
          LET f == find(trie, Root, q, Segments(q.Path))
          IN  f.line # 108 /\ NonNilHandler(f.handler)

\* The root has the children {x} and {y}; a request goes through the
\* wildcard branch into the one the wildcard key names, and gets a handler.
C20_Witness ==
    /\ nregs = MaxRegs
    /\ {<<"{", "x", "}">>, <<"{", "y", "}">>} \subseteq trie[Root].paths
    /\ LookedUp
    /\ 1 \in PassedWildcards
    /\ res.at[1] = trie[Root].param[1]
    /\ res.line = 100

====
